---------------------------- MODULE Spec2Model ----------------------------
(***************************************************************************)
(* A model of the pathtracer: vector arithmetic, ray/shape intersection,   *)
(* scene traversal, material sampling, the path integrator trace_ray and   *)
(* the render loop render_scene.                                           *)
(*                                                                         *)
(* f32 values are fixed-point integers: the f32 v is the integer v * ONE.  *)
(* Products and quotients are rounded to the nearest unit.  A value that   *)
(* the source names with a let and uses more than once is the parameter of *)
(* the operator that models the rest of the function.                      *)
(***************************************************************************)
EXTENDS Integers, Sequences, FiniteSets

\* ------------------------------------------------------------------ f32
\* The fixed-point image of the f32 1.0.
ONE == 20000

\* tools.rs: const ERROR: f32 = 0.0001
ERROR == ONE \div 10000

Abs(a) == IF a < 0 THEN -a ELSE a

Sgn(a) == IF a < 0 THEN -1 ELSE IF a > 0 THEN 1 ELSE 0

Min(a, b) == IF a < b THEN a ELSE b

Max(a, b) == IF a < b THEN b ELSE a

\* n / d rounded to the nearest integer, for n >= 0 and d > 0.
RoundQuot(n, d) == (2 * n + d) \div (2 * d)

\* n / d rounded to the nearest integer (ties away from zero), d # 0.
RDiv(n, d) == Sgn(n) * Sgn(d) * RoundQuot(Abs(n), Abs(d))

\* x * y / ONE for 0 <= x <= y.  The smaller factor multiplies the two parts
\* of the larger, so that the products stay inside the machine integers.
MulMag(x, y) == x * (y \div ONE) + RoundQuot(x * (y % ONE), ONE)

\* f32 product a * b.
FMul(a, b) ==
    Sgn(a) * Sgn(b) * MulMag(Min(Abs(a), Abs(b)), Max(Abs(a), Abs(b)))

\* r * 100 / y for 0 <= r < 200 * y, by long division.
FracMag(r, y) == (r \div y) * 100 + RoundQuot(100 * (r % y), y)

\* x * ONE / y for x >= 0 and y > 0, by long division (ONE = 200 * 100).
DivMag(x, y) == (x \div y) * ONE + FracMag(200 * (x % y), y)

\* f32 quotient a / b, b # 0.
FDiv(a, b) == Sgn(a) * Sgn(b) * DivMag(Abs(a), Abs(b))

\* The largest k in lo..hi with k * k <= n (bisection).
ISqrtBetween[n \in Int, lo \in Int, hi \in Int] ==
    IF lo >= hi THEN lo
    ELSE LET mid == (lo + hi + 1) \div 2
         IN  IF mid * mid <= n THEN ISqrtBetween[n, mid, hi]
                               ELSE ISqrtBetween[n, lo, mid - 1]

\* Integer square root of n >= 0.
ISqrt(n) == ISqrtBetween[n, 0, 46340]

\* f32::sqrt on a fixed-point value a >= 0.
FSqrt(a) == ISqrt(a * ONE)

\* ------------------------------------------------------------- tools.rs
equal_error(f0, f1) == Abs(f0 - f1) < ERROR

less_error(f0, f1) == f0 < f1 - ERROR

is_positive_error(f0) == f0 > ERROR

is_negative_error(f0) == f0 < -ERROR

\* ------------------------------------------------------------ vector.rs
\* struct Vector3 { x: f32, y: f32, z: f32 }
Vec(a, b, c) == [x |-> a, y |-> b, z |-> c]

zero_vector == Vec(0, 0, 0)

Dot(a, b) == FMul(a.x, b.x) + FMul(a.y, b.y) + FMul(a.z, b.z)

Cross(a, b) ==
    Vec(FMul(a.y, b.z) - FMul(a.z, b.y),
        FMul(a.z, b.x) - FMul(a.x, b.z),
        FMul(a.x, b.y) - FMul(a.y, b.x))

is_zero(v) ==
    equal_error(v.x, 0) /\ equal_error(v.y, 0) /\ equal_error(v.z, 0)

\* impl PartialEq for Vector3: equality up to ERROR per component.
VecEq(a, b) ==
    equal_error(a.x, b.x) /\ equal_error(a.y, b.y) /\ equal_error(a.z, b.z)

VAdd(a, b) == Vec(a.x + b.x, a.y + b.y, a.z + b.z)

VSub(a, b) == Vec(a.x - b.x, a.y - b.y, a.z - b.z)

VScale(a, k) == Vec(FMul(a.x, k), FMul(a.y, k), FMul(a.z, k))

VMul(a, b) == Vec(FMul(a.x, b.x), FMul(a.y, b.y), FMul(a.z, b.z))

VNeg(a) == Vec(-a.x, -a.y, -a.z)

\* length() asserts !is_zero(): a vector that is zero up to ERROR panics.
LengthPanics(v) == is_zero(v)

\* The sum of the three squares, exactly (in units of 1 / ONE^2).
SquaredNorm(v) == v.x * v.x + v.y * v.y + v.z * v.z

\* The unit a vector is measured in by length(): coarser than 1 / ONE when
\* a component is above 1.3, so that the squares stay inside the machine
\* integers.
LengthScale(v) ==
    (Max(Abs(v.x), Max(Abs(v.y), Abs(v.z))) \div (ONE + 6000)) + 1

\* f32::sqrt(x * x + y * y + z * z), measured in units of k / ONE.
LengthIn(v, k) ==
    k * ISqrt(SquaredNorm(Vec(RDiv(v.x, k), RDiv(v.y, k), RDiv(v.z, k))))

\* length(), for a vector on which it does not panic.
Length(v) == LengthIn(v, LengthScale(v))

\* unit(): inv_length = 1.0 / length, then self * inv_length.
Unit(v) == VScale(v, FDiv(ONE, Length(v)))

\* Vector3::to_basis(v, z_axis, x_axis, y_axis): the coordinates of v along
\* the three axes (projection on each axis).
to_basis(v, n, r, u) == Vec(Dot(v, r), Dot(v, u), Dot(v, n))

\* ------------------------------------------------------------- camera.rs
Ray(o, d) == [origin |-> o, direction |-> d]

\* -------------------------------------------------------------- shape.rs
\* impl Default for ShapeIntersection: t = -1.0, zero normal.
DefaultShapeIntersection == [t |-> -ONE, surface_normal |-> zero_vector]

Sphere(p, r) == [kind |-> "sphere", position |-> p, radius |-> r]

\* Plane::new: right = up x normal, half extents.
PlaneNew(p, n, u, width, height) ==
    [kind |-> "plane", position |-> p, normal |-> n, up |-> u,
     right |-> Cross(u, n),
     half_width |-> RDiv(width, 2), half_height |-> RDiv(height, 2)]

\* A faulty SphereSelect that takes the larger of two non-negative roots.
SphereSelectLarger(t0, t1) ==
    IF t1 >= 0 THEN Max(t0, t1)
    ELSE IF t0 >= 0 THEN t0
    ELSE -ONE

\* Sphere::intersect, the choice between the roots t0 and t1.
SphereSelect(t0, t1) ==
    IF t1 >= 0 THEN Min(t0, t1)
    ELSE IF t0 >= 0 THEN t0
    ELSE -ONE

\* Sphere::intersect from the discriminant on: no root when it is negative,
\* else t0 = (-b + sqrt_disc) * 0.5 and t1 = (-b - sqrt_disc) * 0.5.
SphereRoots(b, sqrt_disc) ==
    SphereSelect(RDiv(-b + sqrt_disc, 2), RDiv(-b - sqrt_disc, 2))

SphereSolve(b, disc) ==
    IF disc < 0 THEN -ONE ELSE SphereRoots(b, ISqrt(disc))

\* The distance Sphere::intersect reports, or -1.0.  b is an f32; c and the
\* discriminant are kept exactly, in units of 1 / ONE^2, so that the square
\* of a small radius is not lost: disc = b * b - 4 * c.
SphereQuadratic(b, c) == SphereSolve(b, b * b - 4 * c)

SphereT(sphere, ray) ==
    SphereQuadratic(
        2 * Dot(VSub(ray.origin, sphere.position), ray.direction),
        SquaredNorm(VSub(ray.origin, sphere.position))
            - sphere.radius * sphere.radius)

\* The vector Sphere::intersect normalises on a hit at t: hit point - centre.
SphereHitOffset(sphere, ray, t) ==
    VSub(VAdd(ray.origin, VScale(ray.direction, t)), sphere.position)

\* Sphere::intersect panics (assert in Vector3::length) when the vector it
\* normalises is zero up to ERROR.
SpherePanicsAt(sphere, ray, t) ==
    t >= 0 /\ LengthPanics(SphereHitOffset(sphere, ray, t))

SpherePanics(sphere, ray) == SpherePanicsAt(sphere, ray, SphereT(sphere, ray))

\* Sphere::intersect once t is chosen: the normal on a hit.
SphereHit(sphere, ray, t) ==
    IF t >= 0
    THEN [t |-> t, surface_normal |-> Unit(SphereHitOffset(sphere, ray, t))]
    ELSE DefaultShapeIntersection

SphereIntersect(sphere, ray) == SphereHit(sphere, ray, SphereT(sphere, ray))

\* The hit point of a plane at t, relative to the plane's position, in the
\* plane's basis.
PlaneBasisIp(plane, ray, t) ==
    to_basis(VSub(VAdd(ray.origin, VScale(ray.direction, t)), plane.position),
             plane.normal, plane.right, plane.up)

\* A faulty PlaneInside that accepts every hit of the carrier plane.
PlaneInsideAny(plane, t, plane_basis_ip) ==
    [t |-> t, surface_normal |-> plane.normal]

\* Plane::intersect, the bounds test on plane_basis_ip.
PlaneInside(plane, t, plane_basis_ip) ==
    IF /\ Abs(plane_basis_ip.x) <= plane.half_width
       /\ Abs(plane_basis_ip.y) <= plane.half_height
    THEN [t |-> t, surface_normal |-> plane.normal]
    ELSE DefaultShapeIntersection

\* A faulty PlaneAt that accepts a hit behind the ray's origin.
PlaneAtBehind(plane, ray, t) == PlaneInside(plane, t, PlaneBasisIp(plane, ray, t))

\* Plane::intersect, from the test t >= 0.0 on.
PlaneAt(plane, ray, t) ==
    IF t >= 0 THEN PlaneInside(plane, t, PlaneBasisIp(plane, ray, t))
              ELSE DefaultShapeIntersection

\* Plane::intersect, from the test on denom on.
PlaneWithDenom(plane, ray, denom) ==
    IF Abs(denom) > 0
    THEN PlaneAt(plane, ray,
                 FDiv(Dot(plane.normal, VSub(plane.position, ray.origin)), denom))
    ELSE DefaultShapeIntersection

PlaneIntersect(plane, ray) ==
    PlaneWithDenom(plane, ray, Dot(plane.normal, ray.direction))

\* dyn Shape dispatch.
Intersect(shape, ray) ==
    IF shape.kind = "sphere" THEN SphereIntersect(shape, ray)
                             ELSE PlaneIntersect(shape, ray)

IntersectPanics(shape, ray) ==
    shape.kind = "sphere" /\ SpherePanics(shape, ray)

\* ----------------------------------------------------------- material.rs
\* std::f32::consts::PI
PI == 62832

HALF_PI == RDiv(PI, 2)

\* 1 - a2/2 + a4/24 - a6/720 + a8/40320, from a2 = a^2 and a4 = a^4.
CosTerms(a2, a4) ==
    ONE - RDiv(a2, 2) + RDiv(a4, 24) - RDiv(FMul(a4, a2), 720)
        + RDiv(FMul(a4, a4), 40320)

\* cos on [0, pi/2].
CosSeries(a) == CosTerms(FMul(a, a), FMul(FMul(a, a), FMul(a, a)))

\* a - a3/6 + a5/120 - a7/5040, from a2 = a^2 and a3 = a^3.
SinTerms(a, a2, a3) ==
    a - RDiv(a3, 6) + RDiv(FMul(a3, a2), 120)
      - RDiv(FMul(FMul(a3, a2), a2), 5040)

\* sin on [0, pi/2].
SinSeries(a) == SinTerms(a, FMul(a, a), FMul(FMul(a, a), a))

\* The angle in (-pi, pi] that differs from phi in [0, 2 pi] by a turn.
WrapAngle(phi) == IF phi > PI THEN phi - 2 * PI ELSE phi

\* cos of an angle a in [0, pi].
CosReduced(a) == IF a <= HALF_PI THEN CosSeries(a) ELSE -CosSeries(PI - a)

\* sin of an angle a in [0, pi].
SinReduced(a) == IF a <= HALF_PI THEN SinSeries(a) ELSE SinSeries(PI - a)

\* f32::cos for an angle in [0, 2 pi].
Cos(phi) == CosReduced(Abs(WrapAngle(phi)))

\* f32::sin for an angle in [0, 2 pi].
Sin(phi) == Sgn(WrapAngle(phi)) * SinReduced(Abs(WrapAngle(phi)))

MaterialSample(b, d, p) == [brdf |-> b, sample_direction |-> d, pdf |-> p]

invalid_sample == MaterialSample(zero_vector, zero_vector, 0)

NoMaterial == [kind |-> "none"]

EmissiveMaterial(e) == [kind |-> "emissive", emission |-> e]

\* EmissiveMaterial::new(color, intensity)
EmissiveNew(color, intensity) == EmissiveMaterial(VScale(color, intensity))

DiffuseMaterial(c) == [kind |-> "diffuse", color |-> c]

ReflectiveMaterial(c) == [kind |-> "reflective", color |-> c]

TransparentMaterial(c, i) == [kind |-> "transparent", color |-> c, ior |-> i]

\* A faulty get_emission without the override of EmissiveMaterial.
get_emission_default(material) == zero_vector

\* Material::get_emission: the trait's default is zero; Emissive overrides.
get_emission(material) ==
    IF material.kind = "emissive" THEN material.emission ELSE zero_vector

ONE_OVER_PI == FDiv(ONE, PI)

\* DiffuseMaterial::sample_material, the direction sample_dir.
SampleDir(sin_theta, cos_theta, phi) ==
    Vec(FMul(sin_theta, Cos(phi)), FMul(sin_theta, Sin(phi)), Abs(cos_theta))

\* DiffuseMaterial::sample_material, from cos_theta and phi on.
DiffuseAt(material, cos_theta, phi) ==
    MaterialSample(VScale(material.color, ONE_OVER_PI),
                   SampleDir(FSqrt(ONE - FMul(cos_theta, cos_theta)),
                             cos_theta, phi),
                   RDiv(ONE_OVER_PI, 2))

\* DiffuseMaterial::sample_material; u is the 2D draw it takes.
DiffuseSample(material, wo, intersection, u) ==
    IF is_negative_error(Dot(wo, intersection.surface_normal))
    THEN invalid_sample
    ELSE DiffuseAt(material, ONE - 2 * u.t, FMul(u.s, 2 * PI))

\* A faulty reflect that forgets the factor 2.0.
reflect_unscaled(wo, n, wo_dot_n) == VSub(VScale(n, wo_dot_n), wo)

reflect(wo, n, wo_dot_n) == VSub(VScale(n, 2 * wo_dot_n), wo)

\* refract, from sin2_theta_eta2 on.
RefractAt(wo, n, one_over_eta, wo_dot_n, sin2_theta_eta2) ==
    IF ~less_error(sin2_theta_eta2, ONE)
    THEN zero_vector
    ELSE VAdd(VScale(VNeg(wo), one_over_eta),
              VScale(n, FMul(one_over_eta, wo_dot_n)
                            - FSqrt(ONE - sin2_theta_eta2)))

refract(wo, n, one_over_eta, wo_dot_n) ==
    RefractAt(wo, n, one_over_eta, wo_dot_n,
              FMul(FMul(one_over_eta, one_over_eta),
                   ONE - FMul(wo_dot_n, wo_dot_n)))

ONES_VEC == Vec(ONE, ONE, ONE)

\* oct * oct * oct * oct * oct
Pow5(oct) == FMul(FMul(FMul(FMul(oct, oct), oct), oct), oct)

fresnel_schlik(r0, cos_theta) ==
    VAdd(r0, VScale(VSub(ONES_VEC, r0), Pow5(ONE - cos_theta)))

\* first *= 0.5 * first
HalfSquare(first) == FMul(first, RDiv(first, 2))

\* sec *= sec
Square(sec) == FMul(sec, sec)

\* calculate_fresnel, from the test on denom on.
FresnelTerms(cos_theta, g, first, denom) ==
    IF equal_error(denom, 0)
    THEN ONE
    ELSE FMul(first,
              ONE + Square(FDiv(FMul(g + cos_theta, cos_theta) - ONE, denom)))

\* calculate_fresnel, from g on.
FresnelWithG(cos_theta, g) ==
    FresnelTerms(cos_theta, g,
                 HalfSquare(FDiv(g - cos_theta, g + cos_theta)),
                 FMul(g - cos_theta, cos_theta) + ONE)

\* calculate_fresnel, from the test on g_sqrt on.
FresnelWithGSqrt(cos_theta, g_sqrt) ==
    IF ~is_positive_error(g_sqrt) THEN ONE
    ELSE FresnelWithG(cos_theta, FSqrt(g_sqrt))

calculate_fresnel(eta, cos_theta) ==
    FresnelWithGSqrt(cos_theta,
                     FMul(eta, eta) + FMul(cos_theta, cos_theta) - ONE)

\* A faulty ReflectiveAt that rejects every wo_dot_n <= 0.0.
ReflectiveAtStrict(material, wo, n, wo_dot_n) ==
    IF wo_dot_n <= 0
    THEN invalid_sample
    ELSE MaterialSample(fresnel_schlik(material.color, wo_dot_n),
                        reflect(wo, n, wo_dot_n), ONE)

\* ReflectiveMaterial::sample_material, from the test on wo_dot_n on.
ReflectiveAt(material, wo, n, wo_dot_n) ==
    IF is_negative_error(wo_dot_n)
    THEN invalid_sample
    ELSE MaterialSample(fresnel_schlik(material.color, wo_dot_n),
                        reflect(wo, n, wo_dot_n), ONE)

\* ReflectiveMaterial::sample_material (takes no draw).
ReflectiveSample(material, wo, intersection) ==
    ReflectiveAt(material, wo, intersection.surface_normal,
                 Dot(wo, intersection.surface_normal))

\* TransparentMaterial::sample_material, the refracted sample.
RefractedSample(material, eta, fresnel, wi, wi_dot_n) ==
    IF equal_error(wi_dot_n, 0)
    THEN invalid_sample
    ELSE MaterialSample(
             VScale(material.color,
                    FDiv(FMul(FMul(fresnel, eta), eta), wi_dot_n)),
             wi, ONE - fresnel)

\* TransparentMaterial::sample_material, after the draw chose refraction.
TransparentRefract(material, intersection, eta, fresnel, wi) ==
    RefractedSample(material, eta, fresnel, wi,
                    Abs(Dot(wi, intersection.surface_normal)))

\* A faulty TransparentChoose that reflects when the draw is not below the
\* Fresnel term.
TransparentInverted(material, wo, intersection, u, eta, n, wo_dot_n, fresnel) ==
    IF u.s >= fresnel
    THEN MaterialSample(VScale(material.color, FDiv(fresnel, wo_dot_n)),
                        reflect(wo, n, wo_dot_n), fresnel)
    ELSE TransparentRefract(material, intersection, eta, fresnel,
                            refract(wo, n, FDiv(ONE, eta), wo_dot_n))

\* TransparentMaterial::sample_material, from the draw on.
TransparentChoose(material, wo, intersection, u, eta, n, wo_dot_n, fresnel) ==
    IF u.s < fresnel
    THEN MaterialSample(VScale(material.color, FDiv(fresnel, wo_dot_n)),
                        reflect(wo, n, wo_dot_n), fresnel)
    ELSE TransparentRefract(material, intersection, eta, fresnel,
                            refract(wo, n, FDiv(ONE, eta), wo_dot_n))

\* eta = if wo_dot_n < 0.0 { self.ior } else { 1.0 / self.ior }
Eta(ior, wo_dot_n) == IF wo_dot_n < 0 THEN ior ELSE FDiv(ONE, ior)

\* n = -n when wo_dot_n < 0.0
Facing(n, wo_dot_n) == IF wo_dot_n < 0 THEN VNeg(n) ELSE n

\* TransparentMaterial::sample_material, from the test on wo_dot_n on.
TransparentAt(material, wo, intersection, u, wo_dot_n) ==
    IF equal_error(wo_dot_n, 0)
    THEN invalid_sample
    ELSE TransparentChoose(material, wo, intersection, u,
                           Eta(material.ior, wo_dot_n),
                           Facing(intersection.surface_normal, wo_dot_n),
                           Abs(wo_dot_n),
                           calculate_fresnel(Eta(material.ior, wo_dot_n),
                                             Abs(wo_dot_n)))

\* TransparentMaterial::sample_material; u.s is the one draw it takes.
TransparentSample(material, wo, intersection, u) ==
    TransparentAt(material, wo, intersection, u,
                  Dot(wo, intersection.surface_normal))

\* dyn Material dispatch of sample_material.
sample_material(material, wo, intersection, u) ==
    CASE material.kind = "diffuse" -> DiffuseSample(material, wo, intersection, u)
      [] material.kind = "reflective" -> ReflectiveSample(material, wo, intersection)
      [] material.kind = "transparent" -> TransparentSample(material, wo, intersection, u)
      [] OTHER -> invalid_sample

\* -------------------------------------------------------------- scene.rs
Entity(m, sh) == [material |-> m, shape |-> sh]

\* f32::MAX: above every distance of the model (the largest machine integer).
F32_MAX == 2147483647

\* impl Default for EntityIntersection
DefaultEntityIntersection ==
    [shape_intersection |-> DefaultShapeIntersection, material |-> NoMaterial]

\* A faulty KeepNearest that keeps the last hit, not the nearest.
KeepLast(entity, t, entity_intersection, intersection) ==
    IF intersection.t >= 0
    THEN [t |-> intersection.t,
          ei |-> [shape_intersection |-> intersection,
                  material |-> entity.material]]
    ELSE [t |-> t, ei |-> entity_intersection]

\* A faulty KeepNearest that records the shape's hit but not the material.
KeepShapeOnly(entity, t, entity_intersection, intersection) ==
    IF intersection.t >= 0 /\ intersection.t < t
    THEN [t |-> intersection.t,
          ei |-> [shape_intersection |-> intersection,
                  material |-> entity_intersection.material]]
    ELSE [t |-> t, ei |-> entity_intersection]

\* A faulty KeepNearest that also replaces a hit at the same distance.
KeepNearestOrEqual(entity, t, entity_intersection, intersection) ==
    IF intersection.t >= 0 /\ intersection.t <= t
    THEN [t |-> intersection.t,
          ei |-> [shape_intersection |-> intersection,
                  material |-> entity.material]]
    ELSE [t |-> t, ei |-> entity_intersection]

\* The body of the loop of Scene::trace after entity.shape.intersect(ray).
KeepNearest(entity, t, entity_intersection, intersection) ==
    IF intersection.t >= 0 /\ intersection.t < t
    THEN [t |-> intersection.t,
          ei |-> [shape_intersection |-> intersection,
                  material |-> entity.material]]
    ELSE [t |-> t, ei |-> entity_intersection]

\* One iteration of the loop of Scene::trace on entity, with the nearest
\* distance t and the intersection kept so far.
TraceEntity(entity, ray, t, entity_intersection) ==
    KeepNearest(entity, t, entity_intersection, Intersect(entity.shape, ray))

RECURSIVE TraceFrom(_, _, _, _)
\* The loop of Scene::trace from entity i on; acc = [t, ei].
TraceFrom(entities, ray, i, acc) ==
    IF i > Len(entities) THEN acc.ei
    ELSE TraceFrom(entities, ray, i + 1,
                   TraceEntity(entities[i], ray, acc.t, acc.ei))

\* Scene::trace
SceneTrace(sc, r) ==
    TraceFrom(sc.entities, r, 1, [t |-> F32_MAX, ei |-> DefaultEntityIntersection])

\* Scene::trace panics when the intersection of one of its entities does.
SceneTracePanics(sc, r) ==
    \E i \in 1..Len(sc.entities) : IntersectPanics(sc.entities[i].shape, r)

\* ------------------------------------------------------------- camera.rs
\* f32::tan
Tan(a) == FDiv(Sin(a), Cos(a))

\* Camera::new
CameraNew(fov, aspect_ratio, position, look_dir, up_dir) ==
    [position |-> position, up |-> up_dir, look |-> look_dir,
     right |-> Cross(up_dir, look_dir),
     width |-> 2 * Tan(RDiv(fov, 2)),
     aspect_ratio |-> aspect_ratio]

\* The debug_assert of Camera::generate_ray.
FilmCoordinatesOk(fx, fy) == (0 <= fx /\ fx <= ONE) /\ (0 <= fy /\ fy <= ONE)

\* Camera::generate_ray
generate_ray(cam, fx, fy) ==
    Ray(cam.position,
        Unit(to_basis(Vec(FMul(cam.width, fx) - ONE,
                          FDiv(FMul(cam.width, fy) - ONE, cam.aspect_ratio),
                          ONE),
                      cam.look, cam.right, cam.up)))

\* --------------------------------------------------------------- film.rs
FilmSample(n, r) == [num_of_samples |-> n, accumulated_radiance |-> r]

\* Film::new: width * height cells, all empty.
FilmNew(width, height) ==
    [width |-> width, height |-> height,
     pixels |-> [k \in 0..(width * height - 1) |-> FilmSample(0, zero_vector)]]

\* A faulty index that adds the two coordinates.
index_sum(f, px, py) == px + py

\* Film::index
index(f, px, py) == px * f.height + py

\* A faulty add_sample that always writes the first cell.
add_sample_first(f, px, py, rad) ==
    [f EXCEPT !.pixels[0] =
        FilmSample(@.num_of_samples + 1, VAdd(@.accumulated_radiance, rad))]

\* Film::add_sample
add_sample(f, px, py, rad) ==
    [f EXCEPT !.pixels[index(f, px, py)] =
        FilmSample(@.num_of_samples + 1, VAdd(@.accumulated_radiance, rad))]

\* ----------------------------------------------------------- renderer.rs
\* const MAX_DEPTH: u32 = 8
MAX_DEPTH == 8

RenderSettings(w, h, n) ==
    [image_width |-> w, image_height |-> h, num_of_samples |-> n]

\* A faulty FilmCoordinate that takes the pixel's far edge as its origin.
FilmCoordinateNext(s, k, extent) == FDiv(s + (k + 1) * ONE, extent * ONE)

\* The film coordinate render_scene computes for pixel index k of extent
\* and the draw s: (s + k as f32) / extent as f32.
FilmCoordinate(s, k, extent) == FDiv(s + k * ONE, extent * ONE)

\* The result of one iteration of the loop of trace_ray:
\*   kind "miss":     return throughput * sky
\*   kind "emit":     return throughput * emission
\*   kind "break":    invalid sample, the loop is left
\*   kind "continue": throughput and ray are updated
Outcome(k, rad, r, tp) ==
    [kind |-> k, radiance |-> rad, ray |-> r, throughput |-> tp]

\* A faulty Bounce that leaves the pdf out of the weight.
BounceNoPdf(r, tp, si, material_sample, wi_dot_n) ==
    Outcome("continue", zero_vector,
            Ray(VAdd(VAdd(r.origin, VScale(r.direction, si.t)),
                     VScale(material_sample.sample_direction, RDiv(ONE, 1000))),
                material_sample.sample_direction),
            VMul(tp, VScale(material_sample.brdf, wi_dot_n)))

\* trace_ray, the loop body after a valid sample: the new throughput and ray.
Bounce(r, tp, si, material_sample, wi_dot_n) ==
    Outcome("continue", zero_vector,
            Ray(VAdd(VAdd(r.origin, VScale(r.direction, si.t)),
                     VScale(material_sample.sample_direction, RDiv(ONE, 1000))),
                material_sample.sample_direction),
            VMul(tp, VScale(material_sample.brdf,
                            FDiv(wi_dot_n, material_sample.pdf))))

\* trace_ray, the loop body from the material sample on.
AfterSample(r, tp, si, material_sample) ==
    IF \/ equal_error(material_sample.pdf, 0)
       \/ is_zero(material_sample.sample_direction)
    THEN Outcome("break", zero_vector, r, tp)
    ELSE Bounce(r, tp, si, material_sample,
                Abs(Dot(material_sample.sample_direction, si.surface_normal)))

\* trace_ray, the loop body from the intersection on.
AfterTrace(sc, r, tp, u, intersection) ==
    IF intersection.shape_intersection.t < 0
    THEN Outcome("miss", VMul(tp, sc.sky), r, tp)
    ELSE IF ~is_zero(get_emission(intersection.material))
    THEN Outcome("emit", VMul(tp, get_emission(intersection.material)), r, tp)
    ELSE AfterSample(r, tp, intersection.shape_intersection,
                     sample_material(intersection.material, VNeg(r.direction),
                                     intersection.shape_intersection, u))

\* ================================================================ state
VARIABLES
    pc,          \* where the program is
    scene,       \* the Scene: [sky, entities]
    camera,      \* the Camera handed to render_scene
    settings,    \* the RenderSettings
    film,        \* render_scene: the Film
    loop,        \* render_scene: the loop indices [x, y, i]
    film_x,      \* render_scene: the film coordinates of the current sample
    film_y,
    ray,         \* trace_ray: the current ray
    throughput,  \* trace_ray: the running throughput
    depth,       \* trace_ray: iterations of the bounce loop completed
    radiance,    \* the value trace_ray returned
    nTrace,      \* calls of Scene::trace in the current call of trace_ray
    nSample,     \* calls of sample_material in the current call of trace_ray
    call,        \* a function run on its own: its arguments and locals
    ret          \* and its result

vars == <<pc, scene, camera, settings, film, loop, film_x, film_y, ray,
          throughput, depth, radiance, nTrace, nSample, call, ret>>

renderVars == <<film, loop, film_x, film_y>>

pathVars == <<ray, throughput, depth, radiance, nTrace, nSample>>

\* ---------------------------------------------------------------- bounds
MaxWidth == 2

MaxHeight == 2

MaxSamples == 2

\* The number of add_sample calls made on a film on its own.
MaxAdds == 3

\* Sphere radii 1..MaxTinyRadius (in units of 1 / ONE) of the sphere inputs.
MaxTinyRadius == 12

\* ---------------------------------------------------------------- inputs
\* The values the Sampler hands out, in [0, 1).
Samples == {0, ONE \div 2, ONE - 1}

Draws == [s : Samples, t : Samples]

\* The draws sample_material takes from the sampler: get_sample_2d for a
\* diffuse material, one get_sample for a transparent one, none otherwise.
DrawsOf(material) ==
    CASE material.kind = "diffuse" -> Draws
      [] material.kind = "transparent" -> [s : Samples, t : {0}]
      [] OTHER -> [s : {0}, t : {0}]

Y_AXIS == Vec(0, ONE, 0)

Z_AXIS == Vec(0, 0, ONE)

\* The sky of main.rs: (0.05, 0.05, 0.1).
Sky == Vec(ONE \div 20, ONE \div 20, ONE \div 10)

Scene(sky, entities) == [sky |-> sky, entities |-> entities]

\* An emissive wall over the whole view, at z = 0.
LightWall ==
    Entity(EmissiveNew(ONES_VEC, 3 * ONE),
           PlaneNew(zero_vector, VNeg(Z_AXIS), Y_AXIS, 40 * ONE, 40 * ONE))

\* A mirror over the whole view, seen from behind.
BackMirror ==
    Entity(ReflectiveMaterial(ONES_VEC),
           PlaneNew(zero_vector, Z_AXIS, Y_AXIS, 40 * ONE, 40 * ONE))

\* Two large facing mirrors, at z = 0 and at z = -2.
FrontMirror ==
    Entity(ReflectiveMaterial(Vec(ONE, ONE \div 2, ONE \div 2)),
           PlaneNew(zero_vector, VNeg(Z_AXIS), Y_AXIS, 200 * ONE, 200 * ONE))

RearMirror ==
    Entity(ReflectiveMaterial(ONES_VEC),
           PlaneNew(Vec(0, 0, -2 * ONE), Z_AXIS, Y_AXIS, 200 * ONE, 200 * ONE))

\* A mirror behind the camera that faces away from it, at z = -2.
TurnedMirror ==
    Entity(ReflectiveMaterial(ONES_VEC),
           PlaneNew(Vec(0, 0, -2 * ONE), VNeg(Z_AXIS), Y_AXIS,
                    200 * ONE, 200 * ONE))

\* A sphere of radius 0.00005 just in front of the camera.
Speck ==
    Entity(DiffuseMaterial(ONES_VEC), Sphere(Vec(0, 0, 3 - ONE), 1))

\* An emissive patch whose emission is below ERROR in every component.
DimLight ==
    Entity(EmissiveMaterial(Vec(1, 1, 0)),
           PlaneNew(zero_vector, VNeg(Z_AXIS), Y_AXIS, ONE, ONE))

\* A glass sphere, a mirror sphere and a diffuse floor.
GlassSphere ==
    Entity(TransparentMaterial(ONES_VEC, 35000),
           Sphere(zero_vector, ONE \div 4))

MirrorSphere ==
    Entity(ReflectiveMaterial(ONES_VEC), Sphere(zero_vector, ONE \div 4))

Floor ==
    Entity(DiffuseMaterial(Vec(16000, 16000, 16000)),
           PlaneNew(Vec(0, -(ONE \div 2), 0), Y_AXIS, Z_AXIS, 2 * ONE, 2 * ONE))

\* An emissive patch behind the spheres, at z = 0.5.
BackLight ==
    Entity(EmissiveNew(ONES_VEC, 3 * ONE),
           PlaneNew(Vec(0, 0, ONE \div 2), VNeg(Z_AXIS), Y_AXIS, ONE, ONE))

\* The scenes render_scene is run on.
RenderScenes ==
    { Scene(Sky, <<>>),
      Scene(Sky, <<LightWall>>),
      Scene(Sky, <<BackMirror>>),
      Scene(Sky, <<FrontMirror, RearMirror>>),
      Scene(Sky, <<Speck>>) }

\* The scenes trace_ray and Scene::trace are run on.
TraceScenes ==
    RenderScenes \cup
    { Scene(Sky, <<DimLight>>),
      Scene(Sky, <<GlassSphere, Floor, BackLight>>),
      Scene(Sky, <<Floor, MirrorSphere, BackLight>>),
      Scene(Sky, <<BackLight, GlassSphere, MirrorSphere>>),
      Scene(Sky, <<FrontMirror, TurnedMirror>>) }

\* The camera of main.rs, one unit in front of the plane z = 0.
MainCamera(w, h) ==
    CameraNew(HALF_PI, FDiv(w * ONE, h * ONE), Vec(0, 0, -ONE), Z_AXIS, Y_AXIS)

\* The camera rays trace_ray is run on.
TraceRays ==
    { generate_ray(MainCamera(1, 1), fx, fy) : fx \in {0, ONE \div 2, 15000},
                                               fy \in {3000, ONE \div 2, ONE} }
    \cup { Ray(Vec(0, 0, -ONE), Z_AXIS), Ray(Vec(0, 0, -ONE), VNeg(Z_AXIS)),
           Ray(zero_vector, Z_AXIS) }

Idle == [kind |-> "idle"]

\* The values of the variables a specification does not use.
NoLoop == [x |-> 0, y |-> 0, i |-> 0]

NoPath ==
    /\ ray = Ray(zero_vector, zero_vector)
    /\ throughput = ONES_VEC
    /\ depth = 0
    /\ radiance = zero_vector
    /\ nTrace = 0
    /\ nSample = 0

NoRender ==
    /\ settings = RenderSettings(0, 0, 0)
    /\ camera = MainCamera(1, 1)
    /\ film = FilmNew(0, 0)
    /\ loop = NoLoop
    /\ film_x = 0
    /\ film_y = 0

NoCall ==
    /\ call = Idle
    /\ ret = Idle

\* ========================================================= render_scene
\* main.rs: a scene, the settings, and the camera with aspect width/height.
Init ==
    /\ pc = "render"
    /\ scene \in RenderScenes
    /\ \E w \in 1..MaxWidth, h \in 1..MaxHeight, n \in 1..MaxSamples :
          /\ settings = RenderSettings(w, h, n)
          /\ camera = MainCamera(w, h)
    /\ film = FilmNew(0, 0)
    /\ loop = NoLoop
    /\ film_x = 0
    /\ film_y = 0
    /\ NoPath
    /\ NoCall

\* render_scene up to the first sample: Film::new, and the loops entered.
RenderBegin ==
    /\ pc = "render"
    /\ film' = FilmNew(settings.image_width, settings.image_height)
    /\ loop' = NoLoop
    /\ pc' = IF /\ settings.image_width > 0
                /\ settings.image_height > 0
                /\ settings.num_of_samples > 0
             THEN "sample" ELSE "done"
    /\ UNCHANGED <<scene, camera, settings, film_x, film_y, pathVars, call, ret>>

\* The head of the innermost loop body: get_sample_2d, the film coordinates,
\* generate_ray, and the entry of trace_ray.
GenerateRay ==
    /\ pc = "sample"
    /\ \E sample \in Draws :
          /\ film_x' = FilmCoordinate(sample.s, loop.x, settings.image_width)
          /\ film_y' = FilmCoordinate(sample.t, loop.y, settings.image_height)
    /\ ray' = generate_ray(camera, film_x', film_y')
    /\ throughput' = ONES_VEC
    /\ depth' = 0
    /\ nTrace' = 0
    /\ nSample' = 0
    /\ pc' = "trace"
    /\ UNCHANGED <<scene, camera, settings, film, loop, radiance, call, ret>>

\* A faulty NextLoop that leaves a column after its first pixel.
NextLoopSkipRow ==
    IF loop.i + 1 < settings.num_of_samples
    THEN [loop EXCEPT !.i = @ + 1]
    ELSE [x |-> loop.x + 1, y |-> 0, i |-> 0]

\* The loop indices after the current sample.
NextLoop ==
    IF loop.i + 1 < settings.num_of_samples
    THEN [loop EXCEPT !.i = @ + 1]
    ELSE IF loop.y + 1 < settings.image_height
    THEN [x |-> loop.x, y |-> loop.y + 1, i |-> 0]
    ELSE [x |-> loop.x + 1, y |-> 0, i |-> 0]

\* film.add_sample(x, y, &radiance), and the loops advanced.
AddSample ==
    /\ pc = "add"
    /\ film' = add_sample(film, loop.x, loop.y, radiance)
    /\ loop' = NextLoop
    /\ pc' = IF loop'.x < settings.image_width THEN "sample" ELSE "done"
    /\ UNCHANGED <<scene, camera, settings, film_x, film_y, pathVars, call, ret>>

\* ============================================================ trace_ray
\* trace_ray called on one camera ray.
InitTrace ==
    /\ pc = "trace"
    /\ scene \in TraceScenes
    /\ ray \in TraceRays
    /\ throughput = ONES_VEC
    /\ depth = 0
    /\ radiance = zero_vector
    /\ nTrace = 0
    /\ nSample = 0
    /\ NoRender
    /\ NoCall

\* A faulty InLoop that runs the loop body once more.
InLoopOneMore == pc = "trace" /\ depth <= MAX_DEPTH

\* for _ in 0..MAX_DEPTH
InLoop == pc = "trace" /\ depth < MAX_DEPTH

\* scene.trace panics (the assert of Vector3::length).
TracePanic ==
    /\ InLoop
    /\ SceneTracePanics(scene, ray)
    /\ pc' = "panic"
    /\ nTrace' = nTrace + 1
    /\ UNCHANGED <<scene, camera, settings, renderVars, ray, throughput, depth,
                   radiance, nSample, call, ret>>

\* The results of the loop body of trace_ray from the intersection on, one
\* for each pair of draws the sampler can hand out.
BodiesAfter(intersection) ==
    {AfterTrace(scene, ray, throughput, u, intersection) :
        u \in DrawsOf(intersection.material)}

\* The results of one iteration of the loop of trace_ray that does not
\* panic: scene.trace(&ray), then the rest of the body.
Bodies ==
    IF InLoop /\ ~SceneTracePanics(scene, ray)
    THEN BodiesAfter(SceneTrace(scene, ray))
    ELSE {}

\* A faulty TraceMiss that returns the sky without the throughput.
TraceMissUnweighted ==
    /\ \E b \in Bodies :
          /\ b.kind = "miss"
          /\ radiance' = scene.sky
    /\ pc' = "add"
    /\ nTrace' = nTrace + 1
    /\ UNCHANGED <<scene, camera, settings, renderVars, ray, throughput, depth,
                   nSample, call, ret>>

\* No hit: return throughput * scene.sky.
TraceMiss ==
    /\ \E b \in Bodies :
          /\ b.kind = "miss"
          /\ radiance' = b.radiance
    /\ pc' = "add"
    /\ nTrace' = nTrace + 1
    /\ UNCHANGED <<scene, camera, settings, renderVars, ray, throughput, depth,
                   nSample, call, ret>>

\* A faulty TraceEmit that samples the material before it returns.
TraceEmitSampled ==
    /\ \E b \in Bodies :
          /\ b.kind = "emit"
          /\ radiance' = b.radiance
    /\ pc' = "add"
    /\ nTrace' = nTrace + 1
    /\ nSample' = nSample + 1
    /\ UNCHANGED <<scene, camera, settings, renderVars, ray, throughput, depth,
                   call, ret>>

\* An emissive hit: return throughput * emission.
TraceEmit ==
    /\ \E b \in Bodies :
          /\ b.kind = "emit"
          /\ radiance' = b.radiance
    /\ pc' = "add"
    /\ nTrace' = nTrace + 1
    /\ UNCHANGED <<scene, camera, settings, renderVars, ray, throughput, depth,
                   nSample, call, ret>>

\* A faulty TraceBreak that returns the throughput accumulated so far.
TraceBreakThroughput ==
    /\ \E b \in Bodies :
          /\ b.kind = "break"
          /\ radiance' = throughput
    /\ pc' = "add"
    /\ nTrace' = nTrace + 1
    /\ nSample' = nSample + 1
    /\ UNCHANGED <<scene, camera, settings, renderVars, ray, throughput, depth,
                   call, ret>>

\* An invalid material sample: break, and the zero vector is returned.
TraceBreak ==
    /\ \E b \in Bodies :
          /\ b.kind = "break"
          /\ radiance' = zero_vector
    /\ pc' = "add"
    /\ nTrace' = nTrace + 1
    /\ nSample' = nSample + 1
    /\ UNCHANGED <<scene, camera, settings, renderVars, ray, throughput, depth,
                   call, ret>>

\* A valid material sample: the throughput and the ray are updated.
TraceContinue ==
    /\ \E b \in Bodies :
          /\ b.kind = "continue"
          /\ throughput' = b.throughput
          /\ ray' = b.ray
    /\ depth' = depth + 1
    /\ nTrace' = nTrace + 1
    /\ nSample' = nSample + 1
    /\ pc' = "trace"
    /\ UNCHANGED <<scene, camera, settings, renderVars, radiance, call, ret>>

\* The loop ran MAX_DEPTH times: the zero vector is returned.
TraceExhausted ==
    /\ pc = "trace"
    /\ depth >= MAX_DEPTH
    /\ radiance' = zero_vector
    /\ pc' = "add"
    /\ UNCHANGED <<scene, camera, settings, renderVars, ray, throughput, depth,
                   nTrace, nSample, call, ret>>

TraceStep ==
    \/ TracePanic
    \/ TraceMiss
    \/ TraceEmit
    \/ TraceBreak
    \/ TraceContinue
    \/ TraceExhausted

Next ==
    \/ RenderBegin
    \/ GenerateRay
    \/ TraceStep
    \/ AddSample

Spec == Init /\ [][Next]_vars

SpecTrace == InitTrace /\ [][TraceStep]_vars

\* ========================================================= Scene::trace
\* Scene::trace called on one ray: call = [i, t] holds the position of the
\* loop over the entities and the local t, ret the local entity_intersection.
InitScene ==
    /\ pc = "scan"
    /\ scene \in TraceScenes
    /\ ray \in TraceRays
    /\ call = [i |-> 1, t |-> F32_MAX]
    /\ ret = DefaultEntityIntersection
    /\ throughput = ONES_VEC
    /\ depth = 0
    /\ radiance = zero_vector
    /\ nTrace = 0
    /\ nSample = 0
    /\ NoRender

\* for entity in self.entities.iter()
InScan == pc = "scan" /\ call.i <= Len(scene.entities)

\* One iteration of the loop of Scene::trace.
ScanEntity ==
    /\ InScan
    /\ ~IntersectPanics(scene.entities[call.i].shape, ray)
    /\ \E acc \in {TraceEntity(scene.entities[call.i], ray, call.t, ret)} :
          /\ call' = [i |-> call.i + 1, t |-> acc.t]
          /\ ret' = acc.ei
    /\ UNCHANGED <<pc, scene, camera, settings, renderVars, pathVars>>

\* entity.shape.intersect(ray) panics.
ScanPanic ==
    /\ InScan
    /\ IntersectPanics(scene.entities[call.i].shape, ray)
    /\ pc' = "panic"
    /\ UNCHANGED <<scene, camera, settings, renderVars, pathVars, call, ret>>

\* The loop is over: entity_intersection is returned.
ScanReturn ==
    /\ pc = "scan"
    /\ call.i > Len(scene.entities)
    /\ pc' = "done"
    /\ UNCHANGED <<scene, camera, settings, renderVars, pathVars, call, ret>>

SpecScene == InitScene /\ [][ScanEntity \/ ScanPanic \/ ScanReturn]_vars

\* ====================================================== Shape::intersect
\* Radii of the sphere inputs: the smallest ones, and 0.005, 0.05, 0.25.
Radii == (1..MaxTinyRadius) \cup {ONE \div 200, ONE \div 20, ONE \div 4}

\* Ray origins around a sphere of radius r at the origin, for rays toward
\* +z: in front, behind, at the centre, beside, and on a tangent.
SphereOrigins(r) ==
    { Vec(0, 0, -2 * r), Vec(0, 0, 2 * r), zero_vector,
      Vec(2 * r, 0, -2 * r), Vec(r, 0, -2 * r) }

SphereCalls ==
    { [shape |-> Sphere(zero_vector, r), ray |-> Ray(o, Z_AXIS)] :
          r \in Radii, o \in UNION {SphereOrigins(q) : q \in Radii} }

\* Patches facing the camera, facing away from it, lying under it, and
\* off the axis.
Planes ==
    { PlaneNew(zero_vector, VNeg(Z_AXIS), Y_AXIS, ONE, ONE \div 2),
      PlaneNew(zero_vector, Z_AXIS, Y_AXIS, ONE, ONE \div 2),
      PlaneNew(Vec(0, -(ONE \div 2), 0), Y_AXIS, Z_AXIS, 2 * ONE, 2 * ONE),
      PlaneNew(Vec(ONE \div 4, ONE \div 10, ONE \div 2), VNeg(Z_AXIS), Y_AXIS,
               ONE, ONE) }

\* The camera rays, a ray parallel to the patches at z = 0, and one that
\* arrives from the other side.
PlaneRays ==
    TraceRays \cup { Ray(Vec(0, 0, -ONE), Vec(ONE, 0, 0)),
                     Ray(Vec(0, 0, ONE), VNeg(Z_AXIS)) }

PlaneCalls == { [shape |-> p, ray |-> r] : p \in Planes, r \in PlaneRays }

\* A shape's intersect called on one ray.
InitShape ==
    /\ pc = "call"
    /\ call \in SphereCalls \cup PlaneCalls
    /\ ret = Idle
    /\ scene = Scene(Sky, <<>>)
    /\ NoPath
    /\ NoRender

\* Sphere::intersect returns.
SphereCall ==
    /\ pc = "call"
    /\ call.shape.kind = "sphere"
    /\ ~SpherePanics(call.shape, call.ray)
    /\ ret' = SphereIntersect(call.shape, call.ray)
    /\ pc' = "done"
    /\ UNCHANGED <<scene, camera, settings, renderVars, pathVars, call>>

\* Sphere::intersect panics (the assert of Vector3::length).
SpherePanic ==
    /\ pc = "call"
    /\ call.shape.kind = "sphere"
    /\ SpherePanics(call.shape, call.ray)
    /\ pc' = "panic"
    /\ UNCHANGED <<scene, camera, settings, renderVars, pathVars, call, ret>>

\* Plane::intersect returns.
PlaneCall ==
    /\ pc = "call"
    /\ call.shape.kind = "plane"
    /\ ret' = PlaneIntersect(call.shape, call.ray)
    /\ pc' = "done"
    /\ UNCHANGED <<scene, camera, settings, renderVars, pathVars, call>>

SpecShape == InitShape /\ [][SphereCall \/ SpherePanic \/ PlaneCall]_vars

\* ====================================================== sample_material
\* The number of get_sample calls sample_material makes on the sampler:
\* get_sample_2d (two) for a diffuse material that does not reject wo, one
\* for a transparent material off the grazing direction, none otherwise.
SamplerDraws(material, wo, intersection) ==
    CASE material.kind = "diffuse" ->
             IF is_negative_error(Dot(wo, intersection.surface_normal))
             THEN 0 ELSE 2
      [] material.kind = "transparent" ->
             IF equal_error(Dot(wo, intersection.surface_normal), 0)
             THEN 0 ELSE 1
      [] OTHER -> 0

\* A material's sample_material or get_emission called on its own: the five
\* materials, normals of unit length, directions wo in front of the
\* surface, behind it and along it, and the values the sampler hands out.
InitMaterial ==
    /\ pc = "call"
    /\ \E material \in { NoMaterial,
                         EmissiveNew(ONES_VEC, 3 * ONE),
                         EmissiveMaterial(Vec(1, 1, 0)),
                         DiffuseMaterial(Vec(16000, 16000, 16000)),
                         ReflectiveMaterial(Vec(ONE, ONE \div 2, ONE \div 2)),
                         TransparentMaterial(ONES_VEC, 35000) },
          n \in { Z_AXIS, VNeg(Z_AXIS), Y_AXIS,
                  Vec(12000, 16000, 0), Vec(0, -12000, 16000) },
          wo \in { Z_AXIS, VNeg(Z_AXIS), Y_AXIS, Vec(ONE, 0, 0),
                   Vec(16000, 0, 12000), Vec(-16000, 0, -12000),
                   Vec(0, 12000, 16000), Vec(12000, -16000, 0),
                   Vec(19000, 0, 6250), Vec(0, 6250, -19000),
                   Vec(ONE, 0, 1), Vec(ONE, 0, -1), Vec(ONE, 0, -3),
                   Vec(ONE, 3, 0) },
          u \in Draws :
          call = [material |-> material, wo |-> wo,
                  intersection |-> [t |-> ONE, surface_normal |-> n],
                  u |-> u]
    /\ ret = Idle
    /\ scene = Scene(Sky, <<>>)
    /\ NoPath
    /\ NoRender

\* material.sample_material(wo, intersection, sampler) returns.
SampleCall ==
    /\ pc = "call"
    /\ ret' = [sample |-> sample_material(call.material, call.wo,
                                          call.intersection, call.u),
               draws |-> SamplerDraws(call.material, call.wo,
                                      call.intersection)]
    /\ pc' = "sampled"
    /\ UNCHANGED <<scene, camera, settings, renderVars, pathVars, call>>

\* material.get_emission() returns.
EmissionCall ==
    /\ pc = "call"
    /\ ret' = [emission |-> get_emission(call.material)]
    /\ pc' = "emission"
    /\ UNCHANGED <<scene, camera, settings, renderVars, pathVars, call>>

SpecMaterial == InitMaterial /\ [][SampleCall \/ EmissionCall]_vars

\* ================================================================= Film
\* Film::new(w, h), and add_sample called on it in any order: call counts
\* the calls made, in all and for each pixel.
InitFilm ==
    /\ pc = "film"
    /\ \E w \in 1..MaxWidth, h \in 1..MaxHeight :
          /\ film = FilmNew(w, h)
          /\ settings = RenderSettings(w, h, 0)
          /\ call = [n |-> 0,
                     counts |-> [p \in (0..(w - 1)) \X (0..(h - 1)) |-> 0]]
    /\ ret = Idle
    /\ scene = Scene(Sky, <<>>)
    /\ camera = MainCamera(1, 1)
    /\ loop = NoLoop
    /\ film_x = 0
    /\ film_y = 0
    /\ NoPath

\* film.add_sample(x, y, &radiance) for a pixel of the film.
FilmAdd ==
    /\ pc = "film"
    /\ call.n < MaxAdds
    /\ \E x \in 0..(film.width - 1), y \in 0..(film.height - 1),
          rad \in {Sky, ONES_VEC} :
          /\ film' = add_sample(film, x, y, rad)
          /\ call' = [n |-> call.n + 1,
                      counts |-> [call.counts EXCEPT ![<<x, y>>] = @ + 1]]
    /\ UNCHANGED <<pc, scene, camera, settings, loop, film_x, film_y,
                   pathVars, ret>>

SpecFilm == InitFilm /\ [][FilmAdd]_vars

\* =============================================================== claims
\* C1: whenever the current ray of trace_ray hits no entity (scene.trace
\* returns t < 0), the step returns throughput * scene.sky at once, with no
\* material sample and no bounce; on a scene with no entities the value
\* returned is exactly the sky colour.
C1_MissReturnsSky ==
    [][(/\ InLoop
        /\ ~SceneTracePanics(scene, ray)
        /\ SceneTrace(scene, ray).shape_intersection.t < 0)
       => /\ pc' = "add"
          /\ radiance' = VMul(throughput, scene.sky)
          /\ nTrace' = nTrace + 1
          /\ nSample' = nSample
          /\ depth' = depth
          /\ (scene.entities = <<>> => radiance' = scene.sky)]_vars

\* trace_ray has returned throughput * sky for a ray that missed after one
\* bounce.
C1_MissAfterBounce ==
    /\ pc = "add"
    /\ nTrace = 2
    /\ nSample = 1
    /\ SceneTrace(scene, ray).shape_intersection.t < 0
    /\ radiance = VMul(throughput, scene.sky)

\* C2 (as the code decides it): if the material hit by the current ray has
\* an emission that is non-zero beyond the tolerance ERROR in at least one
\* component, the step returns throughput * emission, samples no material
\* and traces no further ray; when the hit is the camera ray's first, the
\* value returned is exactly the emission.
C2_EmissionReturned ==
    [][(/\ InLoop
        /\ ~SceneTracePanics(scene, ray)
        /\ SceneTrace(scene, ray).shape_intersection.t >= 0
        /\ ~is_zero(get_emission(SceneTrace(scene, ray).material)))
       => /\ pc' = "add"
          /\ radiance' =
                 VMul(throughput, get_emission(SceneTrace(scene, ray).material))
          /\ nTrace' = nTrace + 1
          /\ nSample' = nSample
          /\ depth' = depth
          /\ (nTrace = 0 =>
                 radiance' = get_emission(SceneTrace(scene, ray).material))]_vars

\* C2 as stated: the same for every emission that is not the zero vector.
C2_AnyNonZeroEmission ==
    [][(/\ InLoop
        /\ ~SceneTracePanics(scene, ray)
        /\ SceneTrace(scene, ray).shape_intersection.t >= 0
        /\ get_emission(SceneTrace(scene, ray).material) # zero_vector)
       => /\ pc' = "add"
          /\ radiance' =
                 VMul(throughput, get_emission(SceneTrace(scene, ray).material))
          /\ nSample' = nSample]_vars

\* trace_ray has returned the emission of the emissive entity its camera
\* ray hit first.
C2_FirstHitEmissive ==
    /\ pc = "add"
    /\ nTrace = 1
    /\ nSample = 0
    /\ SceneTrace(scene, ray).shape_intersection.t >= 0
    /\ ~is_zero(get_emission(SceneTrace(scene, ray).material))
    /\ radiance = get_emission(SceneTrace(scene, ray).material)

\* C3: when Scene::trace returns and some entity is hit (t >= 0), the
\* returned t is non-negative and at most the t of every entity hit, and
\* the returned intersection and material are those of one same entity.
C3_NearestHit ==
    pc = "done" =>
        \A i \in 1..Len(scene.entities) :
            Intersect(scene.entities[i].shape, ray).t >= 0 =>
                /\ ret.shape_intersection.t >= 0
                /\ ret.shape_intersection.t
                       <= Intersect(scene.entities[i].shape, ray).t
                /\ \E j \in 1..Len(scene.entities) :
                      /\ ret.shape_intersection
                             = Intersect(scene.entities[j].shape, ray)
                      /\ ret.material = scene.entities[j].material

\* Scene::trace has returned the second of three entities, which is nearer
\* than the third.
C3_MiddleEntityNearest ==
    /\ pc = "done"
    /\ Len(scene.entities) = 3
    /\ ret.shape_intersection.t >= 0
    /\ ret.material = scene.entities[2].material
    /\ ret.material # scene.entities[3].material
    /\ Intersect(scene.entities[3].shape, ray).t > ret.shape_intersection.t

C5_AtMostEightTraces ==
    /\ nTrace <= 8
    /\ depth <= 8
    /\ (pc = "add" /\ depth = 8) => (radiance = zero_vector /\ nTrace = 8)

\* trace_ray has returned after 8 bounces.
C5_EightBounces ==
    /\ pc = "add"
    /\ depth = 8
    /\ nTrace = 8
    /\ nSample = 8
    /\ radiance = zero_vector

\* C6: when render_scene returns, every pixel (x, y) has received exactly
\* num_of_samples calls of add_sample; and while it runs, the current pixel
\* has received one call for each sample of it that is over.
C6_EveryPixelSampled ==
    /\ pc = "done" =>
           \A x \in 0..(settings.image_width - 1),
              y \in 0..(settings.image_height - 1) :
               film.pixels[index(film, x, y)].num_of_samples
                   = settings.num_of_samples
    /\ pc \in {"sample", "trace", "add"} =>
           film.pixels[index(film, loop.x, loop.y)].num_of_samples = loop.i

\* render_scene has returned from the largest image with the most samples.
C6_LargestRenderDone ==
    /\ pc = "done"
    /\ settings = RenderSettings(MaxWidth, MaxHeight, MaxSamples)
    /\ film.pixels[index(film, MaxWidth - 1, MaxHeight - 1)].num_of_samples
           = MaxSamples

\* C7: during render_scene a step changes the cell of pixel (x, y) only if
\* it is the add_sample of the iteration of pixel (x, y); every add_sample
\* changes the cell of the current pixel; and the loop never returns to an
\* earlier pixel.
C7_CellWrittenInItsIteration ==
    [][pc # "render" =>
        /\ \A x \in 0..(settings.image_width - 1),
              y \in 0..(settings.image_height - 1) :
               film'.pixels[index(film, x, y)] # film.pixels[index(film, x, y)]
                   => (pc = "add" /\ x = loop.x /\ y = loop.y)
        /\ pc = "add" =>
               film'.pixels[index(film, loop.x, loop.y)]
                   # film.pixels[index(film, loop.x, loop.y)]
        /\ \/ loop'.x > loop.x
           \/ loop'.x = loop.x /\ loop'.y >= loop.y]_vars

\* The loop is writing the last pixel of a 2 x 2 image, and the cell of
\* the first pixel holds all its samples.
C7_LastPixelAfterFirst ==
    /\ pc = "add"
    /\ loop.x = 1
    /\ loop.y = 1
    /\ film.pixels[index(film, 0, 0)].num_of_samples = settings.num_of_samples
    /\ film.pixels[index(film, 1, 1)].num_of_samples = loop.i

\* C8: the film coordinates render_scene hands to Camera::generate_ray
\* satisfy the camera's assertion: both lie in [0, 1].
C8_FilmCoordinatesInRange ==
    pc \in {"trace", "add", "done", "panic"} =>
        /\ FilmCoordinatesOk(film_x, film_y)
        /\ 0 <= film_x /\ film_x <= ONE
        /\ 0 <= film_y /\ film_y <= ONE

\* generate_ray has been called on the far edge of the last column.
C8_FarEdge ==
    /\ pc = "trace"
    /\ loop.x = settings.image_width - 1
    /\ loop.x > 0
    /\ film_x = ONE
    /\ film_y = 0

\* C9: once Sphere::intersect has been called on a sphere of radius r at
\* the origin and the ray from (0, 0, -2r) toward +z, it has returned t = r
\* and the normal (0, 0, -1).
C9_FrontHitAtRadius ==
    (/\ pc # "call"
     /\ call.shape.kind = "sphere"
     /\ call.ray.origin = Vec(0, 0, -2 * call.shape.radius))
    => /\ pc = "done"
       /\ ret.t = call.shape.radius
       /\ VecEq(ret.surface_normal, VNeg(Z_AXIS))

\* C10: when Plane::intersect reports a hit (t >= 0), the normal reported
\* is the plane's normal, and the hit point's coordinates along the plane's
\* right and up axes are within the half extents.
C10_PlaneHitInsidePatch ==
    (pc = "done" /\ call.shape.kind = "plane" /\ ret.t >= 0) =>
        /\ ret.surface_normal = call.shape.normal
        /\ Abs(Dot(VSub(VAdd(call.ray.origin, VScale(call.ray.direction, ret.t)),
                        call.shape.position),
                   call.shape.right)) <= call.shape.half_width
        /\ Abs(Dot(VSub(VAdd(call.ray.origin, VScale(call.ray.direction, ret.t)),
                        call.shape.position),
                   call.shape.up)) <= call.shape.half_height

\* Plane::intersect has reported a hit for a ray that arrives from the
\* back side.
C10_BackSideHit ==
    /\ pc = "done"
    /\ call.shape.kind = "plane"
    /\ ret.t >= 0
    /\ Dot(call.shape.normal, call.ray.direction) > 0

\* C11: when the Reflective material accepts wo at a unit normal n, the
\* direction it samples has the same component along n as wo has
\* (reflect(wo, n) . n = wo . n, as f32 values: up to ERROR), and the pdf it
\* returns is 1.
C11_ReflectionKeepsAngle ==
    (/\ pc = "sampled"
     /\ call.material.kind = "reflective"
     /\ ~is_negative_error(Dot(call.wo, call.intersection.surface_normal)))
    => /\ equal_error(Dot(ret.sample.sample_direction,
                           call.intersection.surface_normal),
                       Dot(call.wo, call.intersection.surface_normal))
       /\ ret.sample.pdf = ONE

\* The Reflective material has reflected a direction that is neither along
\* the normal nor along the surface, at a normal off the axes.
C11_ObliqueReflection ==
    /\ pc = "sampled"
    /\ call.material.kind = "reflective"
    /\ call.intersection.surface_normal = Vec(12000, 16000, 0)
    /\ Dot(call.wo, call.intersection.surface_normal) > ERROR
    /\ Dot(call.wo, call.intersection.surface_normal) < ONE - ERROR
    /\ ret.sample.pdf = ONE
    /\ ret.sample.sample_direction # call.wo
    /\ Dot(ret.sample.sample_direction, call.intersection.surface_normal)
           = Dot(call.wo, call.intersection.surface_normal)

\* C12: sample_material of the Emissive material and of the null material
\* returns the invalid sample (brdf zero, direction zero, pdf 0) for every
\* input and takes no draw from the sampler; get_emission returns the
\* configured emission for Emissive and the zero vector for every other
\* material.
C12_EmissiveNeverSamples ==
    /\ (pc = "sampled" /\ call.material.kind \in {"emissive", "none"})
       => /\ ret.sample.brdf = Vec(0, 0, 0)
          /\ ret.sample.sample_direction = Vec(0, 0, 0)
          /\ ret.sample.pdf = 0
          /\ ret.draws = 0
    /\ pc = "emission"
       => ret.emission = IF call.material.kind = "emissive"
                         THEN call.material.emission
                         ELSE Vec(0, 0, 0)

\* get_emission of an Emissive material built from white at intensity 3 has
\* returned (3, 3, 3).
C12_EmissionQueried ==
    /\ pc = "emission"
    /\ call.material.kind = "emissive"
    /\ ret.emission = Vec(3 * ONE, 3 * ONE, 3 * ONE)

\* C13: when the current ray of trace_ray hits a material without emission,
\* the step follows the material sample of one of the draws the sampler can
\* hand out; if that sample is invalid (pdf within ERROR of 0, or a zero
\* direction) the step ends the path and returns the zero vector, whatever
\* the throughput, and no further ray is traced.
C13_InvalidSampleEndsPath ==
    [][(InLoop /\ ~SceneTracePanics(scene, ray)) =>
        \A hit \in {SceneTrace(scene, ray)} :
            (/\ hit.shape_intersection.t >= 0
             /\ is_zero(get_emission(hit.material)))
            => \E s \in {sample_material(hit.material, VNeg(ray.direction),
                                         hit.shape_intersection, u) :
                             u \in DrawsOf(hit.material)} :
                   IF equal_error(s.pdf, 0) \/ is_zero(s.sample_direction)
                   THEN /\ pc' = "add"
                        /\ radiance' = zero_vector
                        /\ nTrace' = nTrace + 1
                        /\ depth' = depth
                        /\ ray' = ray
                   ELSE /\ pc' = "trace"
                        /\ depth' = depth + 1]_vars

\* trace_ray has returned zero from an invalid sample met after a bounce
\* that had changed the throughput.
C13_BreakAfterBounce ==
    /\ pc = "add"
    /\ nTrace >= 2
    /\ nSample = nTrace
    /\ depth = nTrace - 1
    /\ throughput # ONES_VEC
    /\ ~is_zero(throughput)
    /\ radiance = zero_vector

\* C14: the throughput of trace_ray is (1, 1, 1) before the first bounce;
\* a step that completes a bounce multiplies it, component by component, by
\* brdf * (|wi . n| / pdf) of a valid material sample, and every other step
\* leaves it as it is (so it is always the product of the weights of the
\* bounces completed); the radiance returned on a miss is throughput * sky
\* and on an emissive hit throughput * emission.
C14_ThroughputIsProduct ==
    /\ [](depth = 0 => throughput = Vec(ONE, ONE, ONE))
    /\ [][(InLoop /\ ~SceneTracePanics(scene, ray)) =>
           \A hit \in {SceneTrace(scene, ray)} :
               /\ depth' = depth => throughput' = throughput
               /\ depth' = depth + 1 =>
                      \E s \in {sample_material(hit.material,
                                                VNeg(ray.direction),
                                                hit.shape_intersection, u) :
                                    u \in DrawsOf(hit.material)} :
                          /\ ~equal_error(s.pdf, 0)
                          /\ ~is_zero(s.sample_direction)
                          /\ ray'.direction = s.sample_direction
                          /\ throughput' =
                                 VMul(throughput,
                                      VScale(s.brdf,
                                             FDiv(Abs(Dot(s.sample_direction,
                                                          hit.shape_intersection
                                                             .surface_normal)),
                                                  s.pdf)))
               /\ (pc' = "add" /\ nSample' = nSample) =>
                      radiance' =
                          VMul(throughput,
                               IF hit.shape_intersection.t < 0
                               THEN scene.sky
                               ELSE hit.material.emission)]_vars

\* trace_ray has returned a radiance that is not zero, after two bounces or
\* more that changed the throughput.
C14_WeightedReturn ==
    /\ pc = "add"
    /\ depth >= 2
    /\ nSample = depth
    /\ nTrace = depth + 1
    /\ throughput # ONES_VEC
    /\ ~is_zero(radiance)
    /\ radiance = VMul(throughput,
                       IF SceneTrace(scene, ray).shape_intersection.t < 0
                       THEN scene.sky
                       ELSE get_emission(SceneTrace(scene, ray).material))

\* C15: when Scene::trace returns, the intersection and the material it
\* returns are those of the first entity, in the order of add_entity, among
\* the entities that yield the minimum non-negative t.
C15_FirstEntityWinsTie ==
    pc = "done" =>
        \A i \in 1..Len(scene.entities) :
            (/\ Intersect(scene.entities[i].shape, ray).t >= 0
             /\ \A j \in 1..Len(scene.entities) :
                    \/ Intersect(scene.entities[j].shape, ray).t < 0
                    \/ Intersect(scene.entities[j].shape, ray).t
                           > Intersect(scene.entities[i].shape, ray).t
                    \/ /\ Intersect(scene.entities[j].shape, ray).t
                              = Intersect(scene.entities[i].shape, ray).t
                       /\ j >= i)
            => /\ ret.material = scene.entities[i].material
               /\ ret.shape_intersection
                      = Intersect(scene.entities[i].shape, ray)

\* Scene::trace has returned the earlier of two entities with different
\* materials that the ray hits at the same, nearest, distance.
C15_TieReturned ==
    /\ pc = "done"
    /\ ret.shape_intersection.t >= 0
    /\ \E i, k \in 1..Len(scene.entities) :
          /\ i < k
          /\ Intersect(scene.entities[i].shape, ray).t = ret.shape_intersection.t
          /\ Intersect(scene.entities[k].shape, ray).t = ret.shape_intersection.t
          /\ scene.entities[i].material # scene.entities[k].material
          /\ ret.material = scene.entities[i].material

\* C16 (as the code decides it): the Reflective material returns the
\* invalid sample exactly when wo . n is below -ERROR; for every other wo,
\* those with wo . n between -ERROR and 0 included, it returns a mirror
\* sample with pdf 1 and a direction that is not zero.
C16_RejectsBelowTolerance ==
    (pc = "sampled" /\ call.material.kind = "reflective") =>
        IF Dot(call.wo, call.intersection.surface_normal) < -ERROR
        THEN /\ ret.sample.pdf = 0
             /\ ret.sample.sample_direction = Vec(0, 0, 0)
             /\ ret.sample.brdf = Vec(0, 0, 0)
        ELSE /\ ret.sample.pdf = ONE
             /\ ~is_zero(ret.sample.sample_direction)

\* C16 as stated: the Reflective material returns the invalid sample
\* whenever wo . n <= 0, and a valid sample only when wo . n > 0.
C16_RejectsOnOrBehind ==
    (pc = "sampled" /\ call.material.kind = "reflective") =>
        /\ Dot(call.wo, call.intersection.surface_normal) <= 0
           => /\ ret.sample.pdf = 0
              /\ ret.sample.sample_direction = Vec(0, 0, 0)
        /\ (ret.sample.pdf # 0 /\ ret.sample.sample_direction # Vec(0, 0, 0))
           => Dot(call.wo, call.intersection.surface_normal) > 0

\* The Reflective material has returned a mirror sample for a direction wo
\* along the surface (wo . n = 0).
C16_GrazingAccepted ==
    /\ pc = "sampled"
    /\ call.material.kind = "reflective"
    /\ Dot(call.wo, call.intersection.surface_normal) = 0
    /\ ret.sample.pdf = ONE
    /\ ret.sample.sample_direction = VNeg(call.wo)

\* C17: a call of the Transparent material off the grazing direction takes
\* exactly one draw u from the sampler; it returns the reflection about the
\* facing normal with pdf = Fresnel if u < Fresnel, and otherwise the
\* refracted direction with pdf = 1 - Fresnel; when Fresnel is 1 (total
\* internal reflection) the sample is the reflection for every u.
C17_RouletteOnFresnel ==
    (/\ pc = "sampled"
     /\ call.material.kind = "transparent"
     /\ ~equal_error(Dot(call.wo, call.intersection.surface_normal), 0))
    => \A d \in {Dot(call.wo, call.intersection.surface_normal)} :
       \A fresnel \in {calculate_fresnel(Eta(call.material.ior, d), Abs(d))} :
           /\ ret.draws = 1
           /\ 0 <= call.u.s /\ call.u.s < ONE
           /\ call.u.s < fresnel <=>
                  /\ ret.sample.pdf = fresnel
                  /\ ret.sample.sample_direction
                         = reflect(call.wo,
                                   Facing(call.intersection.surface_normal, d),
                                   Abs(d))
           /\ call.u.s >= fresnel <=>
                  /\ ret.sample.pdf = ONE - fresnel
                  /\ ret.sample.sample_direction
                         = refract(call.wo,
                                   Facing(call.intersection.surface_normal, d),
                                   FDiv(ONE, Eta(call.material.ior, d)), Abs(d))
                  /\ ~is_zero(ret.sample.sample_direction)
           /\ fresnel = ONE => ret.sample.pdf = ONE

\* The Transparent material has returned the reflection with pdf 1 for the
\* largest draw below 1, at an incidence where the Fresnel term is 1.
C17_TotalReflection ==
    /\ pc = "sampled"
    /\ call.material.kind = "transparent"
    /\ ~equal_error(Dot(call.wo, call.intersection.surface_normal), 0)
    /\ call.u.s = ONE - 1
    /\ ret.draws = 1
    /\ ret.sample.pdf = ONE
    /\ calculate_fresnel(Eta(call.material.ior,
                             Dot(call.wo, call.intersection.surface_normal)),
                         Abs(Dot(call.wo, call.intersection.surface_normal)))
           = ONE

\* C18: when Sphere::intersect returns, with b = 2 (o - p) . d,
\* c = |o - p|^2 - r^2 and the discriminant b^2 - 4c: it reports t = -1 if
\* the discriminant is negative; otherwise the smaller root
\* (-b - sqrt) / 2 if that is non-negative, else the larger root
\* (-b + sqrt) / 2 if that is non-negative, else t = -1.
C18_RootSelection ==
    (pc = "done" /\ call.shape.kind = "sphere") =>
        \A b \in {2 * Dot(VSub(call.ray.origin, call.shape.position),
                          call.ray.direction)} :
        \A disc \in {b * b
                     - 4 * (SquaredNorm(VSub(call.ray.origin,
                                             call.shape.position))
                            - call.shape.radius * call.shape.radius)} :
            IF disc < 0 THEN ret.t = -ONE
            ELSE \A root \in {ISqrt(disc)} :
                     ret.t = IF RDiv(-b - root, 2) >= 0
                             THEN RDiv(-b - root, 2)
                             ELSE IF RDiv(-b + root, 2) >= 0
                             THEN RDiv(-b + root, 2)
                             ELSE -ONE

\* Sphere::intersect has returned the larger root for a ray that starts
\* inside the sphere.
C18_HitFromInside ==
    /\ pc = "done"
    /\ call.shape.kind = "sphere"
    /\ SquaredNorm(VSub(call.ray.origin, call.shape.position))
           < call.shape.radius * call.shape.radius
    /\ call.ray.origin # call.shape.position
    /\ ret.t > call.shape.radius

\* C19 (as the code decides it): Plane::intersect reports no intersection
\* (t = -1, zero normal) if the ray direction is perpendicular to the
\* plane's normal (normal . direction = 0, the zero denominator), if the
\* solved t is negative, or if the hit point, relative to the plane's
\* position and expressed by Vector3::to_basis in the basis (right, up),
\* falls outside the half width or the half height.
C19_PlaneRejects ==
    (pc = "done" /\ call.shape.kind = "plane") =>
        \A denom \in {Dot(call.shape.normal, call.ray.direction)} :
            IF denom = 0 THEN ret = [t |-> -ONE, surface_normal |-> Vec(0, 0, 0)]
            ELSE \A t \in {FDiv(Dot(call.shape.normal,
                                    VSub(call.shape.position, call.ray.origin)),
                                denom)} :
                 \A ip \in {to_basis(VSub(VAdd(call.ray.origin,
                                               VScale(call.ray.direction, t)),
                                          call.shape.position),
                                     call.shape.normal, call.shape.right,
                                     call.shape.up)} :
                     (\/ t < 0
                      \/ Abs(ip.x) > call.shape.half_width
                      \/ Abs(ip.y) > call.shape.half_height)
                     => ret = [t |-> -ONE, surface_normal |-> Vec(0, 0, 0)]

\* C19 as stated: no intersection is reported if the ray direction is
\* parallel to the plane's normal, or if the solved t is negative.
C19_RejectsAlongNormal ==
    (pc = "done" /\ call.shape.kind = "plane") =>
        /\ is_zero(Cross(call.shape.normal, call.ray.direction))
           => ret.t = -ONE
        /\ (/\ Dot(call.shape.normal, call.ray.direction) # 0
            /\ FDiv(Dot(call.shape.normal,
                        VSub(call.shape.position, call.ray.origin)),
                    Dot(call.shape.normal, call.ray.direction)) < 0)
           => ret.t = -ONE

\* Plane::intersect has reported no intersection for a ray that runs along
\* the patch (normal . direction = 0) in front of it.
C19_RayAlongPlane ==
    /\ pc = "done"
    /\ call.shape.kind = "plane"
    /\ Dot(call.shape.normal, call.ray.direction) = 0
    /\ ~is_zero(call.ray.direction)
    /\ ret = DefaultShapeIntersection

\* C20: Film::index maps the pixels (x, y) with x < width and y < height
\* one-to-one into 0 .. width * height - 1; each add_sample(x, y, r) adds 1
\* to the sample count and r to the accumulated radiance of the cell of
\* (x, y) and leaves every other cell as it is; and after any sequence of
\* calls the count of each cell is the number of calls made for its pixel.
C20_OneCellPerPixel ==
    /\ [](pc = "film" =>
           /\ DOMAIN film.pixels = 0..(film.width * film.height - 1)
           /\ \A x \in 0..(film.width - 1), y \in 0..(film.height - 1) :
                  /\ index(film, x, y) \in 0..(film.width * film.height - 1)
                  /\ film.pixels[index(film, x, y)].num_of_samples
                         = call.counts[<<x, y>>]
                  /\ \A x2 \in 0..(film.width - 1),
                        y2 \in 0..(film.height - 1) :
                         index(film, x, y) = index(film, x2, y2)
                             => (x = x2 /\ y = y2))
    /\ [][pc = "film" =>
           \E x \in 0..(film.width - 1), y \in 0..(film.height - 1),
              rad \in {Sky, ONES_VEC} :
               /\ call'.counts[<<x, y>>] = call.counts[<<x, y>>] + 1
               /\ film'.pixels[index(film, x, y)].num_of_samples
                      = film.pixels[index(film, x, y)].num_of_samples + 1
               /\ film'.pixels[index(film, x, y)].accumulated_radiance
                      = VAdd(film.pixels[index(film, x, y)]
                                 .accumulated_radiance, rad)
               /\ \A k \in DOMAIN film.pixels :
                      k # index(film, x, y)
                          => film'.pixels[k] = film.pixels[k]
               /\ film'.width = film.width
               /\ film'.height = film.height
               /\ DOMAIN film'.pixels = DOMAIN film.pixels]_vars

\* Three calls were made on a film of two columns and two rows: two for
\* pixel (1, 0) and one for pixel (0, 1), and the other cells are empty.
C20_TwoPixelsWritten ==
    /\ pc = "film"
    /\ film.width = 2
    /\ film.height = 2
    /\ call.n = 3
    /\ film.pixels[index(film, 1, 0)].num_of_samples = 2
    /\ film.pixels[index(film, 0, 1)].num_of_samples = 1
    /\ film.pixels[index(film, 0, 0)] = FilmSample(0, zero_vector)
    /\ film.pixels[index(film, 1, 1)] = FilmSample(0, zero_vector)

=============================================================================
